---------------------------- MODULE Spec2Model ----------------------------
(***************************************************************************)
(* A model of PyMU (IEEE C37.118 synchrophasor frames in Python).          *)
(*                                                                         *)
(*   SpecFramer   the stream framer: Client.readSample, getDataSampleBytes *)
(*                and readConfigFrame2 over a TCP socket                    *)
(*   SpecSession  the device session: startDataStream, the cached          *)
(*                configuration and the receive/decode loop                *)
(*   SpecData     DataFrame / PMU / Phasor / Stat decoding                 *)
(*   SpecStation  Station parsing of a configuration frame                 *)
(*                                                                         *)
(* Hex strings are sequences of nibbles (0..15), most significant first,   *)
(* as the code handles every frame as an upper-case hex string.            *)
(***************************************************************************)
EXTENDS Integers, Sequences, FiniteSets, TLC

VARIABLES
    \* ---- stream framer (client.py, tools.py) ----
    wireLen,      \* the Frame length field of the frame the peer sends
    peerClosed,   \* the peer has closed the connection: recv returns b""
    rdPos,        \* bytes of the frame recv has handed out so far
    fop,          \* the running operation: "none", "data", "config"
    fpc,          \* position in it
    bytesToRead,  \* readSample's argument
    byteLen,      \* len(byte_str) in readSample
    byteHead,     \* the first (at most 4) bytes of byte_str
    introBytes,   \* intro_bytes / the 4 bytes handed to ConfigFrame()
    retLen,       \* len of what the operation returned (-1: nothing yet)
    \* ---- device session (tools.py, client.py, examples/pmuToCsv.py) ----
    outKind,      \* type of the outgoing client: "Client" or "Proxy"
    spc,          \* position in startDataStream
    steps,        \* what startDataStream has done so far, in order
    response,     \* what the last sendData returned as "status"
    configFrame,  \* startDataStream's configFrame (None until parsed)
    cached,       \* the exported configuration the receive loop imports
    devCfgcnt,    \* the device's configuration change count
    lastDecode,   \* the last DataFrame the receive loop decoded
    \* ---- Station parsing (pmuConfigFrame.py) ----
    st,           \* the Station object under construction
    stpc,         \* the parse method of Station.__init__ that runs next
    \* ---- DataFrame decoding (pmuDataFrame.py) ----
    dcfg,         \* theConfigFrame handed to DataFrame()
    dframe,       \* self.frame: the data frame as a hex string
    dpc,          \* the step of DataFrame.__init__ / PMU.__init__ that runs next
    dhdr,         \* the header fields PMUFrame parsed (None before)
    pmus,         \* self.pmus: the PMU objects built so far
    pmu,          \* the PMU object under construction (None between PMUs)
    nextPmuStartingPos,  \* parsePmus' position in self.frame
    dsoc,         \* what updateSOC stored in self.soc (None before)
    \* ---- TransferFrame (transferFrame.py) ----
    tf,           \* the TransferFrame object built from the DataFrame
    tpc           \* the step of TransferFrame.__init__ that runs next

framerVars == <<wireLen, peerClosed, rdPos, fop, fpc, bytesToRead, byteLen,
                byteHead, introBytes, retLen>>

sessVars == <<outKind, spc, steps, response, configFrame, cached, devCfgcnt,
              lastDecode>>

stVars == <<st, stpc>>

dataVars == <<dcfg, dframe, dpc, dhdr, pmus, pmu, nextPmuStartingPos, dsoc>>

tfVars == <<tf, tpc>>

vars == <<framerVars, sessVars, stVars, dataVars, tfVars>>

notFramer == <<sessVars, stVars, dataVars, tfVars>>

notSession == <<framerVars, stVars, dataVars, tfVars>>

notStation == <<framerVars, sessVars, dataVars, tfVars>>

notData == <<framerVars, sessVars, stVars, tfVars>>

notTransfer == <<framerVars, sessVars, stVars, dataVars>>

\* Python's None and a value that is not None, for a variable that holds
\* either: <<>> and <<x>>
None == <<>>

Some(x) == <<x>>

Val(o) == o[1]

\* no session: nothing requested, nothing cached
SessionIdle ==
    /\ outKind = "Client"
    /\ spc = "off"
    /\ steps = <<>>
    /\ response = "none"
    /\ configFrame = None
    /\ cached = None
    /\ devCfgcnt = 0
    /\ lastDecode = None

\* no Station being parsed
StationIdle ==
    /\ st = None
    /\ stpc = "off"

\* no DataFrame being decoded
DataIdle ==
    /\ dcfg = None
    /\ dframe = <<>>
    /\ dpc = "off"
    /\ dhdr = None
    /\ pmus = <<>>
    /\ pmu = None
    /\ nextPmuStartingPos = 0
    /\ dsoc = None

\* no TransferFrame being built
TransferIdle ==
    /\ tf = None
    /\ tpc = "off"

(***************************************************************************)
(* Python helpers                                                          *)
(***************************************************************************)
Min(a, b) == IF a < b THEN a ELSE b

Max(a, b) == IF a > b THEN a ELSE b

\* s[a:b] of Python for 0 <= a, 0 <= b: clipped to the sequence, never an error
PySlice(s, a, b) ==
    IF a >= Min(b, Len(s)) THEN <<>> ELSE SubSeq(s, a + 1, Min(b, Len(s)))

\* s[a:]
PyFrom(s, a) == PySlice(s, a, Len(s))

RECURSIVE HexToInt(_)
\* int(h, 16) of a non-empty hex string
HexToInt(h) ==
    IF Len(h) = 0 THEN 0
    ELSE 16 * HexToInt(SubSeq(h, 1, Len(h) - 1)) + h[Len(h)]

\* pmuLib.bytesToHexStr: two hex digits per byte, high nibble first
RECURSIVE bytesToHexStr(_)
bytesToHexStr(bs) ==
    IF Len(bs) = 0 THEN <<>>
    ELSE <<bs[1] \div 16, bs[1] % 16>> \o bytesToHexStr(Tail(bs))

\* bin(v)[2:]: the binary digits of v, most significant first ("0" for 0)
RECURSIVE Bin(_)
Bin(v) == IF v < 2 THEN <<v>> ELSE Bin(v \div 2) \o <<v % 2>>

\* str.zfill(n): zeros on the left up to n characters
RECURSIVE ZFill(_, _)
ZFill(bits, n) == IF Len(bits) >= n THEN bits ELSE ZFill(<<0>> \o bits, n)

\* pmuLib.hexToBin(hexStr, numOfBits) of a non-empty hex string
hexToBin(hexStr, numOfBits) == ZFill(Bin(HexToInt(hexStr)), numOfBits)

\* int(bits, 2)
RECURSIVE BinToInt(_)
BinToInt(bits) ==
    IF Len(bits) = 0 THEN 0
    ELSE 2 * BinToInt(SubSeq(bits, 1, Len(bits) - 1)) + bits[Len(bits)]

\* bytes.fromhex(h) of a hex string of even length
RECURSIVE FromHex(_)
FromHex(h) ==
    IF Len(h) < 2 THEN <<>>
    ELSE <<16 * h[1] + h[2]>> \o FromHex(SubSeq(h, 3, Len(h)))

\* bytes.fromhex raises ValueError on an odd number of hex digits
FromHexOk(h) == Len(h) % 2 = 0

\* bytes.decode("ascii") raises UnicodeDecodeError on a byte above 127
AsciiOk(bs) == \A i \in 1 .. Len(bs) : bs[i] < 128

\* bs.split(b"\x00", 1)[0]: what comes before the first null byte
RECURSIVE BeforeNull(_)
BeforeNull(bs) ==
    IF Len(bs) = 0 \/ bs[1] = 0 THEN <<>>
    ELSE <<bs[1]>> \o BeforeNull(Tail(bs))

\* str.replace("\x00", "")
RECURSIVE RemoveNulls(_)
RemoveNulls(bs) ==
    IF Len(bs) = 0 THEN <<>>
    ELSE (IF bs[1] = 0 THEN <<>> ELSE <<bs[1]>>) \o RemoveNulls(Tail(bs))

\* the characters str.strip() removes: space, \t, \n, \v, \f, \r
Whitespace == {32, 9, 10, 11, 12, 13}

RECURSIVE LStrip(_)
LStrip(cs) ==
    IF Len(cs) > 0 /\ cs[1] \in Whitespace THEN LStrip(Tail(cs)) ELSE cs

RECURSIVE RStrip(_)
RStrip(cs) ==
    IF Len(cs) > 0 /\ cs[Len(cs)] \in Whitespace
      THEN RStrip(SubSeq(cs, 1, Len(cs) - 1)) ELSE cs

\* str.strip()
PyStrip(cs) == LStrip(RStrip(cs))

\* the hex digits of v, n of them
RECURSIVE IntToHex(_, _)
IntToHex(v, n) ==
    IF n = 0 THEN <<>> ELSE IntToHex(v \div 16, n - 1) \o <<v % 16>>

\* the hex digits of a byte string
RECURSIVE BytesToHex(_)
BytesToHex(bs) ==
    IF Len(bs) = 0 THEN <<>> ELSE IntToHex(bs[1], 2) \o BytesToHex(Tail(bs))

\* bs followed by pad bytes up to n bytes
RECURSIVE PadTo(_, _, _)
PadTo(bs, n, pad) == IF Len(bs) >= n THEN bs ELSE PadTo(bs \o <<pad>>, n, pad)

(***************************************************************************)
(* The stream framer                                                       *)
(***************************************************************************)
\* the largest run of bytes a single recv hands out short of the whole request
MaxChunk == 2

\* Frame lengths the peer may declare (4 <= L <= 65535): around the header
\* size, around one byte of length, and around 12 bits of length
FrameLens == {4, 5, 6, 8, 260, 4095, 4096, 4097, 4100, 4104}

\* byte i (from 0) of the frame on the wire: sync, type, length high, length
\* low, then the rest of the frame
WireByte(i) ==
    CASE i = 0 -> 170
      [] i = 1 -> 1
      [] i = 2 -> wireLen \div 256
      [] i = 3 -> wireLen % 256
      [] OTHER -> i % 256

RECURSIVE WireBytes(_, _)
WireBytes(from, n) ==
    IF n <= 0 THEN <<>> ELSE <<WireByte(from)>> \o WireBytes(from + 1, n - 1)

\* what recv(need) may hand out on an open TCP connection with data pending
ChunkSizes(need) == (1 .. Min(need, MaxChunk)) \cup {need}

FramerStart ==
    /\ wireLen \in FrameLens
    /\ peerClosed = FALSE
    /\ rdPos = 0
    /\ fop = "none"
    /\ fpc = "idle"
    /\ bytesToRead = 0
    /\ byteLen = 0
    /\ byteHead = <<>>
    /\ introBytes = <<>>
    /\ retLen = -1

\* no frame on the wire, nothing being read
FramerIdle ==
    /\ wireLen = 4
    /\ peerClosed = FALSE
    /\ rdPos = 0
    /\ fop = "none"
    /\ fpc = "off"
    /\ bytesToRead = 0
    /\ byteLen = 0
    /\ byteHead = <<>>
    /\ introBytes = <<>>
    /\ retLen = -1

\* entry of Client.readSample(n): byte_str = b""
CallReadSample(n) ==
    /\ bytesToRead' = n
    /\ byteLen' = 0
    /\ byteHead' = <<>>
    /\ fpc' = "while"

\* getDataSampleBytes(rcvr) with total_bytes = -1 on a Client: read the intro
GetDataSampleBytes ==
    /\ fpc = "idle"
    /\ fop' = "data"
    /\ CallReadSample(4)
    /\ UNCHANGED <<wireLen, peerClosed, rdPos, introBytes, retLen>>
    /\ UNCHANGED notFramer

\* readConfigFrame2(cli): read the first 4 bytes
ReadConfigFrame2 ==
    /\ fpc = "idle"
    /\ fop' = "config"
    /\ CallReadSample(4)
    /\ UNCHANGED <<wireLen, peerClosed, rdPos, introBytes, retLen>>
    /\ UNCHANGED notFramer

\* the while test of readSample: loop again, or return byte_str to the caller
ReadSampleWhile ==
    /\ fpc = "while"
    /\ IF byteLen < bytesToRead
         THEN fpc' = "recv"
         ELSE fpc' = IF introBytes = <<>> THEN "intro" ELSE "payload"
    /\ UNCHANGED <<wireLen, peerClosed, rdPos, fop, bytesToRead, byteLen,
                   byteHead, introBytes, retLen>>
    /\ UNCHANGED notFramer

\* byte_str += self.theSocket.recv(need_to_read): at most need_to_read bytes,
\* and no byte at all once the peer has closed
RecvAppend(k) ==
    /\ byteLen' = byteLen + k
    /\ byteHead' = IF byteLen < 4
                     THEN byteHead \o WireBytes(rdPos, Min(k, 4 - byteLen))
                     ELSE byteHead
    /\ rdPos' = rdPos + k
    /\ fpc' = "while"

Recv ==
    /\ fpc = "recv"
    /\ IF peerClosed
         THEN RecvAppend(0)
         ELSE \E k \in ChunkSizes(bytesToRead - byteLen) : RecvAppend(k)
    /\ UNCHANGED <<wireLen, peerClosed, fop, bytesToRead, introBytes, retLen>>
    /\ UNCHANGED notFramer

\* the socket timeout set by setTimeout: recv raises socket.timeout when the
\* open connection delivers nothing in time
RecvTimeout ==
    /\ fpc = "recv"
    /\ ~peerClosed
    /\ fpc' = "timeout"
    /\ UNCHANGED <<wireLen, peerClosed, rdPos, fop, bytesToRead, byteLen,
                   byteHead, introBytes, retLen>>
    /\ UNCHANGED notFramer

\* the peer closes the connection; what it had not delivered never arrives
PeerClose ==
    /\ ~peerClosed
    /\ fpc \in {"while", "recv"}
    /\ peerClosed' = TRUE
    /\ UNCHANGED <<wireLen, rdPos, fop, fpc, bytesToRead, byteLen, byteHead,
                   introBytes, retLen>>
    /\ UNCHANGED notFramer

\* total_bytes = int(introHexStr[5:], 16)
IntroTotalBytes(introHexStr) == HexToInt(PyFrom(introHexStr, 5))

\* PMUFrame.parseFRAMESIZE: the 4 hex digits after the 4 of SYNC
parseFRAMESIZE(frame) == HexToInt(PySlice(frame, 4, 8))

\* after the intro: the length the rest of the frame is read with
GotIntro ==
    /\ fpc = "intro"
    /\ introBytes' = byteHead
    /\ LET hexStr == bytesToHexStr(byteHead)
           total == IF fop = "data" THEN IntroTotalBytes(hexStr)
                                    ELSE parseFRAMESIZE(hexStr)
       IN  CallReadSample(total - 4)
    /\ UNCHANGED <<wireLen, peerClosed, rdPos, fop, retLen>>
    /\ UNCHANGED notFramer

\* full_bytes_str = intro_bytes + payload_bytes, returned
GotPayload ==
    /\ fpc = "payload"
    /\ retLen' = Len(introBytes) + byteLen
    /\ fpc' = "done"
    /\ UNCHANGED <<wireLen, peerClosed, rdPos, fop, bytesToRead, byteLen,
                   byteHead, introBytes>>
    /\ UNCHANGED notFramer

NextFramer ==
    \/ GetDataSampleBytes
    \/ ReadConfigFrame2
    \/ ReadSampleWhile
    \/ Recv
    \/ RecvTimeout
    \/ PeerClose
    \/ GotIntro
    \/ GotPayload

InitFramer ==
    FramerStart /\ SessionIdle /\ StationIdle /\ DataIdle /\ TransferIdle

SpecFramer == InitFramer /\ [][NextFramer]_vars

\* a running Python program takes its next step
FairSpecFramer == SpecFramer /\ WF_vars(NextFramer)

(***************************************************************************)
(* The device session                                                      *)
(***************************************************************************)
\* how often the device changes its configuration in a run
MaxCfgcnt == 2

\* the size of the data frames the device sends under its configuration c
DevFrameSize(c) == 18 + 4 * c

SessionStart ==
    /\ outKind \in {"Client", "Proxy"}
    /\ spc = "idle"
    /\ steps = <<>>
    /\ response = "none"
    /\ configFrame = None
    /\ cached = None
    /\ devCfgcnt = 0
    /\ lastDecode = None

\* Client.sendData returns {"status": "unknown"}; HologramProxy.sendData
\* returns parse_response's "success" or "failed"
SendDataStatus(kind) ==
    IF kind = "Client" THEN {"unknown"} ELSE {"success", "failed"}

\* getConfigFrame2 reads the configuration frame only on this status
RequestAccepted(status) == status = "success"

\* startDataStream -> getConfigFrame2 -> requestConfigFrame2: the CONFIG2
\* command goes out and sendData's answer comes back
RequestConfigFrame2 ==
    /\ spc \in {"idle", "returned", "raised"}
    /\ steps' = <<"CONFIG2">>
    /\ response' \in SendDataStatus(outKind)
    /\ configFrame' = None
    /\ spc' = "requested"
    /\ UNCHANGED <<outKind, cached, devCfgcnt, lastDecode>>
    /\ UNCHANGED notSession

\* getConfigFrame2: readConfigFrame2(incoming_client) parses the device's
\* configuration frame (Station.parseCFGCNT keeps its change count)
GetConfigFrame2Read ==
    /\ spc = "requested"
    /\ RequestAccepted(response)
    /\ configFrame' = Some([cfgcnt |-> devCfgcnt, dataframe_bytes |-> None])
    /\ steps' = Append(steps, "readConfig")
    /\ spc' = "have_config"
    /\ UNCHANGED <<outKind, response, cached, devCfgcnt, lastDecode>>
    /\ UNCHANGED notSession

\* getConfigFrame2: raise Exception("Unable to request Config Frame")
GetConfigFrame2Raise ==
    /\ spc = "requested"
    /\ ~RequestAccepted(response)
    /\ spc' = "raised"
    /\ UNCHANGED <<outKind, steps, response, configFrame, cached, devCfgcnt,
                   lastDecode>>
    /\ UNCHANGED notSession

\* _ = turnDataOn(outgoing_client, idcode): the answer is not looked at
TurnDataOn ==
    /\ spc = "have_config"
    /\ steps' = Append(steps, "DATAON")
    /\ response' \in SendDataStatus(outKind)
    /\ spc' = "dataon"
    /\ UNCHANGED <<outKind, configFrame, cached, devCfgcnt, lastDecode>>
    /\ UNCHANGED notSession

\* data = getDataSampleHex(incoming_client); dFrame = DataFrame(data,
\* configFrame); configFrame.update_dataframe_size(dFrame.framesize)
ReadFirstDataFrame ==
    /\ spc = "dataon"
    /\ steps' = Append(steps, "readData")
    /\ configFrame' =
           Some([Val(configFrame) EXCEPT
                    !.dataframe_bytes = Some(DevFrameSize(devCfgcnt))])
    /\ spc' = "data_read"
    /\ UNCHANGED <<outKind, response, cached, devCfgcnt, lastDecode>>
    /\ UNCHANGED notSession

\* incoming_client.stop(); return configFrame
StopAndReturn ==
    /\ spc = "data_read"
    /\ steps' = Append(steps, "close")
    /\ spc' = "returned"
    /\ UNCHANGED <<outKind, response, configFrame, cached, devCfgcnt,
                   lastDecode>>
    /\ UNCHANGED notSession

\* ConfigFrame.export(filepath): the returned configuration is pickled
ExportConfig ==
    /\ spc = "returned"
    /\ cached # configFrame
    /\ cached' = configFrame
    /\ UNCHANGED <<outKind, spc, steps, response, configFrame, devCfgcnt,
                   lastDecode>>
    /\ UNCHANGED notSession

\* the receive loop of pmuToCsv: confFrame = import_config(...);
\* dFrame = DataFrame(d, confFrame)
ReceiveAndDecode ==
    /\ spc # "off"
    /\ cached # None
    /\ lastDecode' = Some([with |-> Val(cached).cfgcnt, device |-> devCfgcnt])
    /\ UNCHANGED <<outKind, spc, steps, response, configFrame, cached,
                   devCfgcnt>>
    /\ UNCHANGED notSession

\* the device is reconfigured: its change count goes up
DeviceReconfigure ==
    /\ spc # "off"
    /\ devCfgcnt < MaxCfgcnt
    /\ devCfgcnt' = devCfgcnt + 1
    /\ UNCHANGED <<outKind, spc, steps, response, configFrame, cached,
                   lastDecode>>
    /\ UNCHANGED notSession

NextSession ==
    \/ RequestConfigFrame2
    \/ GetConfigFrame2Read
    \/ GetConfigFrame2Raise
    \/ TurnDataOn
    \/ ReadFirstDataFrame
    \/ StopAndReturn
    \/ ExportConfig
    \/ ReceiveAndDecode
    \/ DeviceReconfigure

InitSession ==
    SessionStart /\ FramerIdle /\ StationIdle /\ DataIdle /\ TransferIdle

SpecSession == InitSession /\ [][NextSession]_vars

(***************************************************************************)
(* Station parsing (pmuConfigFrame.py)                                     *)
(***************************************************************************)
\* the most phasors, analogs and digital words a generated station declares
MaxPhnmr == 2

MaxAnnmr == 1

MaxDgnmr == 1

\* pmuEnum: the names of the coded values (a code without a name makes the
\* enum constructor raise ValueError)
NumType(c) == IF c = 0 THEN "INTEGER" ELSE "FLOAT"

PhsrFmt(c) == IF c = 0 THEN "RECT" ELSE "POLAR"

MeasurementTypeCodes == {0, 1}

MeasurementType(c) == IF c = 0 THEN "VOLTAGE" ELSE "CURRENT"

AnlgMsrmntCodes == {0, 1, 2}

AnlgMsrmnt(c) ==
    CASE c = 0 -> "SINGLE_POINT_ON_WAVE" [] c = 1 -> "RMS" [] OTHER -> "PEAK"

FundFreq(c) == IF c = 0 THEN "HZ60" ELSE "HZ50"

\* ---- the station fields a device sends (spec 4.2), as a hex string ----
\* name k (from 0) of station s, padded with a space on odd k
ChannelNameOf(s, k) ==
    <<65 + s, 48 + (k \div 10), 48 + (k % 10)>>
        \o (IF k % 2 = 1 THEN <<32>> ELSE <<>>)

RECURSIVE ChannelNamesHex(_, _, _)
ChannelNamesHex(s, k, n) ==
    IF k >= n THEN <<>>
    ELSE BytesToHex(PadTo(ChannelNameOf(s, k), 16, 0))
             \o ChannelNamesHex(s, k + 1, n)

\* conversion factor k: the kind byte, then 3 bytes of scale
RECURSIVE UnitsHex(_, _, _)
UnitsHex(k, n, kinds) ==
    IF k >= n THEN <<>>
    ELSE IntToHex(k % kinds, 2) \o IntToHex(915527 + k, 6)
             \o UnitsHex(k + 1, n, kinds)

RECURSIVE MasksHex(_, _)
MasksHex(k, n) ==
    IF k >= n THEN <<>>
    ELSE IntToHex(65535, 4) \o IntToHex(k, 4) \o MasksHex(k + 1, n)

\* p: [s, fmt, ph, an, dg, fnom, cfgcnt]
StationHex(p) ==
    BytesToHex(PadTo(<<83, 84, 78, 48 + p.s>>, 14, 32) \o <<0, 0>>)
        \o IntToHex(p.s, 4)
        \o IntToHex(p.fmt, 4)
        \o IntToHex(p.ph, 4) \o IntToHex(p.an, 4) \o IntToHex(p.dg, 4)
        \o ChannelNamesHex(p.s, 0, p.ph + p.an + 16 * p.dg)
        \o UnitsHex(0, p.ph, 2)
        \o UnitsHex(0, p.an, 3)
        \o MasksHex(0, p.dg)
        \o IntToHex(p.fnom, 4)
        \o IntToHex(p.cfgcnt, 4)

\* ---- Station.__init__ ----
NewStation(theStationHex) ==
    [stationFrame |-> theStationHex, length |-> 0, err |-> "",
     stn |-> None, idcode_data |-> None, freqType |-> "None",
     anlgType |-> "None", phsrType |-> "None", phsrFmt |-> "None",
     phnmr |-> None, annmr |-> None, dgnmr |-> None, channels |-> None,
     numOfChns |-> 0, phunits |-> None, anunits |-> None,
     digunits |-> None, fnom |-> "None", cfgcnt |-> None]

\* the exception leaves Station.__init__
Raise(s, e) == [s EXCEPT !.err = e]

\* self.stationFrame[self.length : (self.length + shift)]
Field(s, shift) == PySlice(s.stationFrame, s.length, s.length + shift)

parseSTN(s) ==
    LET h == Field(s, 32) IN
    IF ~FromHexOk(h) THEN Raise(s, "ValueError")
    ELSE IF ~AsciiOk(FromHex(h)) THEN Raise(s, "UnicodeDecodeError")
    ELSE [s EXCEPT !.stn = RemoveNulls(FromHex(h)), !.length = @ + 32]

parseIDCODE_data(s) ==
    LET h == Field(s, 4) IN
    IF Len(h) = 0 THEN Raise(s, "ValueError")
    ELSE [s EXCEPT !.idcode_data = HexToInt(h), !.length = @ + 4]

\* the four bits: mutated to bits 4..7 of the word
FormatBitsWrong(h) ==
    LET bits == hexToBin(h, 32) IN SubSeq(bits, Len(bits) - 7, Len(bits) - 4)

\* fmts = hexToBin(..., 32)[-4:]
FormatBits(h) ==
    LET bits == hexToBin(h, 32) IN SubSeq(bits, Len(bits) - 3, Len(bits))

parseFORMAT(s) ==
    LET h == Field(s, 4) IN
    IF Len(h) = 0 THEN Raise(s, "ValueError")
    ELSE LET fmts == FormatBits(h) IN
         [s EXCEPT !.freqType = NumType(fmts[1]),
                   !.anlgType = NumType(fmts[2]),
                   !.phsrType = NumType(fmts[3]),
                   !.phsrFmt = PhsrFmt(fmts[4]),
                   !.length = @ + 4]

parsePHNMR(s) ==
    LET h == Field(s, 4) IN
    IF Len(h) = 0 THEN Raise(s, "ValueError")
    ELSE [s EXCEPT !.phnmr = HexToInt(h), !.length = @ + 4]

parseANNMR(s) ==
    LET h == Field(s, 4) IN
    IF Len(h) = 0 THEN Raise(s, "ValueError")
    ELSE [s EXCEPT !.annmr = HexToInt(h), !.length = @ + 4]

parseDGNMR(s) ==
    LET h == Field(s, 4) IN
    IF Len(h) = 0 THEN Raise(s, "ValueError")
    ELSE [s EXCEPT !.dgnmr = HexToInt(h), !.length = @ + 4]

\* the number of channel names a station with these counts has
NumOfChnsWrong(phnmr, annmr, dgnmr) == phnmr + annmr + dgnmr

NumOfChns(phnmr, annmr, dgnmr) == phnmr + annmr + (16 * dgnmr)

RECURSIVE ChnameLoop(_, _)
ChnameLoop(s, i) ==
    IF i >= s.numOfChns THEN s
    ELSE LET h == Field(s, 32) IN
         IF ~FromHexOk(h) THEN Raise(s, "ValueError")
         ELSE IF ~AsciiOk(BeforeNull(FromHex(h)))
           THEN Raise(s, "UnicodeDecodeError")
         ELSE ChnameLoop([s EXCEPT
                            !.channels = Append(@, BeforeNull(FromHex(h))),
                            !.length = @ + 32], i + 1)

parseCHNAME(s) ==
    ChnameLoop([s EXCEPT !.numOfChns = NumOfChns(s.phnmr, s.annmr, s.dgnmr),
                         !.channels = <<>>], 0)

\* Phunit(phunitHexStr): parseVoltOrCurr, parseValue
PhunitOk(h) ==
    /\ Len(PySlice(h, 0, 2)) > 0
    /\ HexToInt(PySlice(h, 0, 2)) \in MeasurementTypeCodes
    /\ Len(PyFrom(h, 2)) > 0

Phunit(h) ==
    [phunitHex |-> h,
     voltORcurr |-> MeasurementType(HexToInt(PySlice(h, 0, 2))),
     value |-> HexToInt(PyFrom(h, 2))]

\* Anunit(anunitHexStr): parseAnlgMsrmnt, parseUserDefinedScale
AnunitOk(h) ==
    /\ Len(PySlice(h, 0, 2)) > 0
    /\ HexToInt(PySlice(h, 0, 2)) \in AnlgMsrmntCodes

Anunit(h) ==
    [anunitHex |-> h,
     anlgMsrmnt |-> AnlgMsrmnt(HexToInt(PySlice(h, 0, 2))),
     userDefinedScale |-> None,
     userDefiend |-> PyFrom(h, 1)]

Digunit(h) == [digunitHex |-> h]

\* the number of entries the three conversion tables are given
PhunitCount(s) == s.phnmr

AnunitCountWrong(s) == s.phnmr

AnunitCount(s) == s.annmr

DigunitCountWrong(s) == 16 * s.dgnmr

DigunitCount(s) == s.dgnmr

RECURSIVE PhunitLoop(_, _)
PhunitLoop(s, i) ==
    IF i >= PhunitCount(s) THEN s
    ELSE LET h == Field(s, 8) IN
         IF ~PhunitOk(h) THEN Raise(s, "ValueError")
         ELSE PhunitLoop([s EXCEPT !.phunits = Append(@, Phunit(h)),
                                   !.length = @ + 8], i + 1)

parsePHUNIT(s) == PhunitLoop([s EXCEPT !.phunits = <<>>], 0)

RECURSIVE AnunitLoop(_, _)
AnunitLoop(s, i) ==
    IF i >= AnunitCount(s) THEN s
    ELSE LET h == Field(s, 8) IN
         IF ~AnunitOk(h) THEN Raise(s, "ValueError")
         ELSE AnunitLoop([s EXCEPT !.anunits = Append(@, Anunit(h)),
                                   !.length = @ + 8], i + 1)

parseANUNIT(s) == AnunitLoop([s EXCEPT !.anunits = <<>>], 0)

RECURSIVE DigunitLoop(_, _)
DigunitLoop(s, i) ==
    IF i >= DigunitCount(s) THEN s
    ELSE DigunitLoop([s EXCEPT !.digunits = Append(@, Digunit(Field(s, 8))),
                               !.length = @ + 8], i + 1)

parseDIGUNIT(s) == DigunitLoop([s EXCEPT !.digunits = <<>>], 0)

\* hexDigit = self.stationFrame[self.length + 4]
parseFNOM(s) ==
    IF s.length + 4 >= Len(s.stationFrame) THEN Raise(s, "IndexError")
    ELSE LET hexDigit == <<s.stationFrame[s.length + 4 + 1]>>
             hexDigitLSB == hexToBin(hexDigit, 8)[7 + 1]
         IN  [s EXCEPT !.fnom = FundFreq(hexDigitLSB), !.length = @ + 4]

parseCFGCNT(s) ==
    LET h == Field(s, 4) IN
    IF Len(h) = 0 THEN Raise(s, "ValueError")
    ELSE [s EXCEPT !.cfgcnt = HexToInt(h), !.length = @ + 4]

\* parse method n of Station.__init__, and the methods from n on: an
\* exception ends the construction
StationMethod(s, n) ==
    CASE n = 1 -> parseSTN(s)
      [] n = 2 -> parseIDCODE_data(s)
      [] n = 3 -> parseFORMAT(s)
      [] n = 4 -> parsePHNMR(s)
      [] n = 5 -> parseANNMR(s)
      [] n = 6 -> parseDGNMR(s)
      [] n = 7 -> parseCHNAME(s)
      [] n = 8 -> parsePHUNIT(s)
      [] n = 9 -> parseANUNIT(s)
      [] n = 10 -> parseDIGUNIT(s)
      [] n = 11 -> parseFNOM(s)
      [] n = 12 -> parseCFGCNT(s)

RECURSIVE StationRun(_, _)
StationRun(s, n) ==
    IF s.err # "" \/ n > 12 THEN s
    ELSE StationRun(StationMethod(s, n), n + 1)

\* Station(theStationHex)
Station(theStationHex) == StationRun(NewStation(theStationHex), 1)

\* ---- the inputs and the steps of Station.__init__ ----
\* FORMAT words: every value of the low 4 bits, and some with upper bits set
FormatWords == (0 .. 15) \cup {16, 65525}

\* what follows the station in the frame: DATARATE and CHK
StationTrailer == IntToHex(30, 4) \o IntToHex(43981, 4)

\* hex digits missing at the end of the bytes handed to Station()
StationCuts == {0, 10, 44}

StationInputs ==
    {[s |-> 1, fmt |-> f, ph |-> ph, an |-> an, dg |-> dg, fnom |-> fn,
      cfgcnt |-> cc] :
        f \in FormatWords, ph \in 0 .. MaxPhnmr, an \in 0 .. MaxAnnmr,
        dg \in 0 .. MaxDgnmr, fn \in {0, 1}, cc \in {0, 4096}}

StationStart ==
    /\ \E p \in StationInputs, cut \in StationCuts :
          LET h == StationHex(p) \o StationTrailer IN
          st = NewStation(PySlice(h, 0, Len(h) - cut))
    /\ stpc = "parseSTN"

\* one parse method of Station.__init__ has run: an error ends the parse
StationStep(next, result) ==
    /\ st' = result
    /\ stpc' = IF result.err # "" THEN "raised" ELSE next
    /\ UNCHANGED notStation

ParseSTN ==
    /\ stpc = "parseSTN"
    /\ StationStep("parseIDCODE_data", parseSTN(st))

ParseIDCODE_data ==
    /\ stpc = "parseIDCODE_data"
    /\ StationStep("parseFORMAT", parseIDCODE_data(st))

ParseFORMAT ==
    /\ stpc = "parseFORMAT"
    /\ StationStep("parsePHNMR", parseFORMAT(st))

ParsePHNMR ==
    /\ stpc = "parsePHNMR"
    /\ StationStep("parseANNMR", parsePHNMR(st))

ParseANNMR ==
    /\ stpc = "parseANNMR"
    /\ StationStep("parseDGNMR", parseANNMR(st))

ParseDGNMR ==
    /\ stpc = "parseDGNMR"
    /\ StationStep("parseCHNAME", parseDGNMR(st))

ParseCHNAME ==
    /\ stpc = "parseCHNAME"
    /\ StationStep("parsePHUNIT", parseCHNAME(st))

ParsePHUNIT ==
    /\ stpc = "parsePHUNIT"
    /\ StationStep("parseANUNIT", parsePHUNIT(st))

ParseANUNIT ==
    /\ stpc = "parseANUNIT"
    /\ StationStep("parseDIGUNIT", parseANUNIT(st))

ParseDIGUNIT ==
    /\ stpc = "parseDIGUNIT"
    /\ StationStep("parseFNOM", parseDIGUNIT(st))

ParseFNOM ==
    /\ stpc = "parseFNOM"
    /\ StationStep("parseCFGCNT", parseFNOM(st))

ParseCFGCNT ==
    /\ stpc = "parseCFGCNT"
    /\ StationStep("done", parseCFGCNT(st))

NextStation ==
    \/ ParseSTN
    \/ ParseIDCODE_data
    \/ ParseFORMAT
    \/ ParsePHNMR
    \/ ParseANNMR
    \/ ParseDGNMR
    \/ ParseCHNAME
    \/ ParsePHUNIT
    \/ ParseANUNIT
    \/ ParseDIGUNIT
    \/ ParseFNOM
    \/ ParseCFGCNT

InitStation ==
    StationStart /\ FramerIdle /\ SessionIdle /\ DataIdle /\ TransferIdle

SpecStation == InitStation /\ [][NextStation]_vars

(***************************************************************************)
(* ConfigFrame parsing (pmuConfigFrame.py, on PMUFrame's common header)    *)
(***************************************************************************)
\* PMUFrame: SYNC (4 hex digits), FRAMESIZE (4), IDCODE (4), SOC (8) and
\* FRACSEC (8); the parse of a frame body starts at self.length = 28
HeaderHexLen == 28

PMUFrameHeader(frame) ==
    [framesize |-> parseFRAMESIZE(frame),
     idcode |-> HexToInt(PySlice(frame, 8, 12)),
     soc |-> HexToInt(PySlice(frame, 12, 20)),
     fracsec |-> HexToInt(PySlice(frame, 20, 28))]

\* PMUFrame's parse needs the sync byte and the whole header
PMUFrameOk(frame) ==
    Len(frame) >= HeaderHexLen /\ PySlice(frame, 0, 2) = <<10, 10>>

\* the common header a device sends (spec 6)
HeaderHex(type, framesize, idcode, soc, fracsec) ==
    IntToHex(170, 2) \o IntToHex(type, 2) \o IntToHex(framesize, 4)
        \o IntToHex(idcode, 4) \o IntToHex(soc, 8) \o IntToHex(fracsec, 8)

\* TimeBase(timeBaseHexStr)
TimeBase(timeBaseHexStr) ==
    [timeBaseHex |-> timeBaseHexStr,
     flagsBinStr |-> PySlice(hexToBin(timeBaseHexStr, 32), 0, 8),
     baseDecStr |-> HexToInt(PyFrom(timeBaseHexStr, 1))]

\* ConfigFrame.parseStations: Station(self.frame[self.length:]) for each
\* PMU, each starting where the one before ended
RECURSIVE ParseStations(_, _, _, _)
ParseStations(frame, length, n, acc) ==
    IF n = 0 THEN [stations |-> acc, length |-> length, err |-> ""]
    ELSE LET s == Station(PyFrom(frame, length)) IN
         IF s.err # "" THEN [stations |-> acc, length |-> length, err |-> s.err]
         ELSE ParseStations(frame, length + s.length, n - 1, Append(acc, s))

\* ConfigFrame(frameInHexStr) followed by finishParsing(): parseTIME_BASE,
\* parseNUM_PMU, parseStations, parseDATARATE
ConfigFrameOk(frame) ==
    /\ PMUFrameOk(frame)
    /\ Len(PySlice(frame, 28, 36)) > 1
    /\ Len(PySlice(frame, 36, 40)) > 0
    /\ LET r == ParseStations(frame, 40, HexToInt(PySlice(frame, 36, 40)), <<>>)
       IN  r.err = "" /\ Len(PySlice(frame, r.length, r.length + 4)) > 0

ConfigFrame(frame) ==
    LET num == HexToInt(PySlice(frame, 36, 40))
        r == ParseStations(frame, 40, num, <<>>)
    IN  [framesize |-> parseFRAMESIZE(frame),
         time_base |-> TimeBase(PySlice(frame, 28, 36)),
         num_pmu |-> num,
         stations |-> r.stations,
         datarate |-> HexToInt(PySlice(frame, r.length, r.length + 4)),
         length |-> r.length + 4,
         dataframe_bytes |-> None]

\* the configuration frame a device with these stations sends (spec 4.2)
RECURSIVE StationsHex(_)
StationsHex(ps) ==
    IF Len(ps) = 0 THEN <<>> ELSE StationHex(ps[1]) \o StationsHex(Tail(ps))

ConfigHex(ps, timeBase) ==
    LET body == IntToHex(timeBase, 8) \o IntToHex(Len(ps), 4)
                    \o StationsHex(ps) \o IntToHex(30, 4)
    IN  HeaderHex(49, (HeaderHexLen + Len(body) + 4) \div 2, 7, 1600000000, 0)
            \o body \o IntToHex(43981, 4)

(***************************************************************************)
(* Numbers the decoder computes (struct, math), as terms                   *)
(*                                                                         *)
(* A term is a sequence of integers: <<0, x>> is the number x,             *)
(* <<1, hi, lo>> the IEEE-754 single whose 32 bits are the 16-bit words    *)
(* hi and lo, and a longer term is a math function applied to terms.  A    *)
(* function is evaluated where its value is an integer known exactly, and  *)
(* left applied otherwise.                                                 *)
(***************************************************************************)
Num(x) == <<0, x>>

IsNum(t) == t[1] = 0

Abs(x) == IF x < 0 THEN -x ELSE x

\* the float struct.unpack("!f") makes of the 4 bytes hi, lo
\* (0x00000000 is 0.0 and 0x3F800000 is 1.0)
F32(hi, lo) ==
    IF hi = 0 /\ lo = 0 THEN Num(0)
    ELSE IF hi = 16256 /\ lo = 0 THEN Num(1)
    ELSE <<1, hi, lo>>

\* math.hypot(a, b)
Hypot(a, b) ==
    IF IsNum(a) /\ IsNum(b) /\ b[2] = 0 THEN Num(Abs(a[2]))
    ELSE IF IsNum(a) /\ IsNum(b) /\ a[2] = 0 THEN Num(Abs(b[2]))
    ELSE <<2>> \o a \o b

\* math.atan2(y, x)
Atan2(y, x) ==
    IF IsNum(y) /\ IsNum(x) /\ y[2] = 0 /\ x[2] >= 0 THEN Num(0)
    ELSE <<3>> \o y \o x

\* math.degrees(r)
Degrees(r) == IF r = Num(0) THEN Num(0) ELSE <<4>> \o r

\* a / n
Div(a, n) ==
    IF IsNum(a) /\ a[2] % n = 0 THEN Num(a[2] \div n) ELSE <<5>> \o a \o <<n>>

\* a * b
Mul(a, b) ==
    IF IsNum(a) /\ IsNum(b) THEN Num(a[2] * b[2]) ELSE <<6>> \o a \o b

\* math.cos(a), math.sin(a)
Cos(a) == IF a = Num(0) THEN Num(1) ELSE <<7>> \o a

Sin(a) == IF a = Num(0) THEN Num(0) ELSE <<8>> \o a

\* the signed value of a 16-bit word: mutated to the unsigned value
S16Wrong(v) == v

\* struct.unpack("!h"): big-endian signed 16-bit
S16(v) == IF v >= 32768 THEN v - 65536 ELSE v

\* the bytes struct.unpack(unpackStr, ...) needs
UnpackSize(unpackStr) == IF unpackStr = "!h" THEN 2 ELSE 4

\* what struct.unpack(unpackStr, bytes.fromhex(h)) raises ("": nothing)
UnpackErr(unpackStr, h) ==
    IF ~FromHexOk(h) THEN "ValueError"
    ELSE IF Len(h) # 2 * UnpackSize(unpackStr) THEN "struct.error"
    ELSE ""

\* struct.unpack(unpackStr, bytes.fromhex(h))[0]
Unpack(unpackStr, h) ==
    IF unpackStr = "!h" THEN Num(S16(HexToInt(h)))
    ELSE F32(HexToInt(PySlice(h, 0, 4)), HexToInt(PySlice(h, 4, 8)))

(***************************************************************************)
(* Stat (pmuDataFrame.py)                                                  *)
(***************************************************************************)
\* pmuEnum: the codes each enumeration defines
DataErrorCodes == 0 .. 3

BitCodes == {0, 1}

TimeQualityCodes == 0 .. 7

UnlockedTimeCodes == 0 .. 3

TriggerReasonCodes == 0 .. 7

\* enums.X(code).name: a name per code, held as <<code>> (never None)
EnumName(code) == Some(code)

NewStat(statHexStr) ==
    [statHex |-> statHexStr, err |-> "",
     dataError |-> None, pmuSync |-> None, sorting |-> None,
     pmuTrigger |-> None, configChange |-> None, dataModified |-> None,
     timeQuality |-> None, unlockedTime |-> None, triggerReason |-> None]

\* hexToBin(self.statHex[i], 4): the 4 bits of hex digit i (from 0)
StatDigitBits(s, i) == hexToBin(<<s.statHex[i + 1]>>, 4)

parseDataError(s) ==
    IF Len(s.statHex) < 1 THEN Raise(s, "IndexError")
    ELSE LET v == BinToInt(PySlice(StatDigitBits(s, 0), 0, 2)) IN
         IF v \notin DataErrorCodes THEN Raise(s, "ValueError")
         ELSE [s EXCEPT !.dataError = EnumName(v)]

parsePmuSync(s) ==
    IF Len(s.statHex) < 1 THEN Raise(s, "IndexError")
    ELSE [s EXCEPT !.pmuSync = EnumName(StatDigitBits(s, 0)[3])]

parseSorting(s) ==
    IF Len(s.statHex) < 1 THEN Raise(s, "IndexError")
    ELSE [s EXCEPT !.sorting = EnumName(StatDigitBits(s, 0)[4])]

parsePmuTrigger(s) ==
    IF Len(s.statHex) < 2 THEN Raise(s, "IndexError")
    ELSE [s EXCEPT !.pmuTrigger = EnumName(StatDigitBits(s, 1)[1])]

parseConfigChange(s) ==
    IF Len(s.statHex) < 2 THEN Raise(s, "IndexError")
    ELSE [s EXCEPT !.configChange = EnumName(StatDigitBits(s, 1)[2])]

parseDataModified(s) ==
    IF Len(s.statHex) < 2 THEN Raise(s, "IndexError")
    ELSE [s EXCEPT !.dataModified = EnumName(StatDigitBits(s, 1)[3])]

\* the time quality code is stored in self.unlockedTime
parseTimeQuality(s) ==
    LET h == PySlice(s.statHex, 1, 3) IN
    IF Len(h) = 0 THEN Raise(s, "ValueError")
    ELSE LET v == BinToInt(PySlice(hexToBin(h, 8), 3, 6)) IN
         IF v \notin TimeQualityCodes THEN Raise(s, "ValueError")
         ELSE [s EXCEPT !.unlockedTime = EnumName(v)]

parseUnlockTime(s) ==
    IF Len(s.statHex) < 3 THEN Raise(s, "IndexError")
    ELSE LET v == BinToInt(PyFrom(StatDigitBits(s, 2), 2)) IN
         IF v \notin UnlockedTimeCodes THEN Raise(s, "ValueError")
         ELSE [s EXCEPT !.unlockedTime = EnumName(v)]

parseTriggerReason(s) ==
    IF Len(s.statHex) < 4 THEN Raise(s, "IndexError")
    ELSE LET v == BinToInt(StatDigitBits(s, 3)) IN
         IF v \notin TriggerReasonCodes THEN Raise(s, "ValueError")
         ELSE [s EXCEPT !.triggerReason = EnumName(v)]

\* parse method n of Stat.__init__, and the methods from n on
StatMethod(s, n) ==
    CASE n = 1 -> parseDataError(s)
      [] n = 2 -> parsePmuSync(s)
      [] n = 3 -> parseSorting(s)
      [] n = 4 -> parsePmuTrigger(s)
      [] n = 5 -> parseConfigChange(s)
      [] n = 6 -> parseDataModified(s)
      [] n = 7 -> parseTimeQuality(s)
      [] n = 8 -> parseUnlockTime(s)
      [] n = 9 -> parseTriggerReason(s)

RECURSIVE StatRun(_, _)
StatRun(s, n) ==
    IF s.err # "" \/ n > 9 THEN s
    ELSE StatRun(StatMethod(s, n), n + 1)

\* Stat(statHexStr)
Stat(statHexStr) == StatRun(NewStat(statHexStr), 1)

(***************************************************************************)
(* Phasor (pmuDataFrame.py)                                                *)
(***************************************************************************)
NewPhasor(thePhsrValHex, theStationFrame, theName) ==
    [phsrValHex |-> thePhsrValHex, name |-> theName, length |-> 0,
     err |-> "", phsrFmt |-> "None", phsrType |-> "None",
     real |-> None, imag |-> None, mag |-> None, deg |-> None, rad |-> None]

PhasorParseFmt(ph, theStationFrame) ==
    [ph EXCEPT !.phsrFmt = theStationFrame.phsrFmt,
               !.phsrType = theStationFrame.phsrType,
               !.length = IF theStationFrame.phsrType = "INTEGER"
                          THEN 8 ELSE 16]

PhasorUnpackStr(ph) == IF ph.phsrType = "INTEGER" THEN "!h" ELSE "!f"

\* hex1 = hexVal[: int(self.length / 2)], hex2 = hexVal[int(self.length / 2) :]
Hex1(ph, hexVal) == PySlice(hexVal, 0, ph.length \div 2)

Hex2(ph, hexVal) == PyFrom(hexVal, ph.length \div 2)

\* what unpacking the two sub-fields raises ("": nothing)
PhasorUnpackErr(ph, hexVal) ==
    LET e1 == UnpackErr(PhasorUnpackStr(ph), Hex1(ph, hexVal)) IN
    IF e1 # "" THEN e1 ELSE UnpackErr(PhasorUnpackStr(ph), Hex2(ph, hexVal))

toRect(ph, hexVal) ==
    IF PhasorUnpackErr(ph, hexVal) # ""
    THEN Raise(ph, PhasorUnpackErr(ph, hexVal))
    ELSE LET re == Unpack(PhasorUnpackStr(ph), Hex1(ph, hexVal))
             im == Unpack(PhasorUnpackStr(ph), Hex2(ph, hexVal))
             rad == Atan2(im, re)
         IN  [ph EXCEPT !.real = Some(re), !.imag = Some(im),
                        !.mag = Some(Hypot(re, im)),
                        !.rad = Some(rad),
                        !.deg = Some(Degrees(rad))]

\* the angle in radians: mutated to scale whatever the numeric type
PolarRadWrong(unpackStr, raw) == Div(raw, 10000)

\* if unpackStr == "!h": self.rad = self.rad / 10000
PolarRad(unpackStr, raw) == IF unpackStr = "!h" THEN Div(raw, 10000) ELSE raw

\* real and imag are computed from the angle in degrees
toPolar(ph, hexVal) ==
    IF PhasorUnpackErr(ph, hexVal) # ""
    THEN Raise(ph, PhasorUnpackErr(ph, hexVal))
    ELSE LET mag == Unpack(PhasorUnpackStr(ph), Hex1(ph, hexVal))
             rad == PolarRad(PhasorUnpackStr(ph),
                             Unpack(PhasorUnpackStr(ph), Hex2(ph, hexVal)))
             deg == Degrees(rad)
         IN  [ph EXCEPT !.mag = Some(mag), !.rad = Some(rad),
                        !.deg = Some(deg),
                        !.real = Some(Mul(mag, Cos(deg))),
                        !.imag = Some(Mul(mag, Sin(deg)))]

PhasorParseVal(ph) ==
    IF ph.phsrFmt = "RECT"
    THEN toRect(ph, PySlice(ph.phsrValHex, 0, ph.length))
    ELSE toPolar(ph, PySlice(ph.phsrValHex, 0, ph.length))

\* Phasor(thePhsrValHex, theStationFrame, theName)
Phasor(thePhsrValHex, theStationFrame, theName) ==
    PhasorParseVal(PhasorParseFmt(
        NewPhasor(thePhsrValHex, theStationFrame, theName), theStationFrame))

(***************************************************************************)
(* PMU (pmuDataFrame.py)                                                   *)
(***************************************************************************)
NewPMU(pmuHexStr, theStationFrame) ==
    [pmuHex |-> pmuHexStr, stationFrame |-> theStationFrame,
     length |-> 0, err |-> "",
     numOfPhsrs |-> theStationFrame.phnmr,
     fmtOfPhsrs |-> theStationFrame.phsrFmt,
     typeOfPhsrs |-> theStationFrame.phsrType,
     numOfAnlg |-> theStationFrame.annmr,
     numOfDgtl |-> theStationFrame.dgnmr,
     stat |-> None, phasors |-> None, freq |-> None, dfreq |-> None,
     analogs |-> None, digitals |-> None]

\* self.pmuHex[self.length : self.length + shift]
PmuField(p, shift) == PySlice(p.pmuHex, p.length, p.length + shift)

parseStat(p) ==
    LET s == Stat(PmuField(p, 4)) IN
    IF s.err # "" THEN Raise(p, s.err)
    ELSE [p EXCEPT !.stat = Some(s), !.length = @ + 4]

\* the loop of parsePhasors from phasor i on
RECURSIVE PhasorsLoop(_, _)
PhasorsLoop(p, i) ==
    IF i >= p.numOfPhsrs THEN p
    ELSE LET ph == Phasor(PyFrom(p.pmuHex, p.length), p.stationFrame,
                          p.stationFrame.channels[i + 1])
         IN  IF ph.err # "" THEN Raise(p, ph.err)
             ELSE PhasorsLoop([p EXCEPT !.phasors = Append(@, ph),
                                        !.length = @ + ph.length], i + 1)

parsePhasors(p) == PhasorsLoop([p EXCEPT !.phasors = <<>>], 0)

\* the shift of a field: mutated to 4 hex digits whatever the type
NumShiftWrong(type) == 4

\* shift and unpackStr of a field of the given numeric type
NumShift(type) == IF type = "INTEGER" THEN 4 ELSE 8

NumUnpackStr(type) == IF NumShift(type) = 4 THEN "!h" ELSE "!f"

parseFreq(p) ==
    LET shift == NumShift(p.stationFrame.freqType)
        unpackStr == NumUnpackStr(p.stationFrame.freqType)
        h == PmuField(p, shift)
    IN  IF UnpackErr(unpackStr, h) # "" THEN Raise(p, UnpackErr(unpackStr, h))
        ELSE [p EXCEPT !.freq = Some(Unpack(unpackStr, h)),
                       !.length = @ + shift]

\* the value is divided by 100 whatever the numeric type
parseDfreq(p) ==
    LET shift == NumShift(p.stationFrame.freqType)
        unpackStr == NumUnpackStr(p.stationFrame.freqType)
        h == PmuField(p, shift)
    IN  IF UnpackErr(unpackStr, h) # "" THEN Raise(p, UnpackErr(unpackStr, h))
        ELSE [p EXCEPT !.dfreq = Some(Div(Unpack(unpackStr, h), 100)),
                       !.length = @ + shift]

\* the channel of analog i: mutated to leave out the phasor channels
AnalogChannelWrong(p, i) == i

\* self.stationFrame.channels[self.numOfPhsrs + i]
AnalogChannel(p, i) == p.numOfPhsrs + i

\* the loop of parseAnalog from analog i on
RECURSIVE AnalogLoop(_, _)
AnalogLoop(p, i) ==
    IF i >= p.numOfAnlg THEN p
    ELSE LET shift == NumShift(p.stationFrame.anlgType)
             unpackStr == NumUnpackStr(p.stationFrame.anlgType)
             h == PmuField(p, shift)
             name == PyStrip(p.stationFrame.channels[AnalogChannel(p, i) + 1])
         IN  IF UnpackErr(unpackStr, h) # ""
             THEN Raise(p, UnpackErr(unpackStr, h))
             ELSE AnalogLoop(
                      [p EXCEPT !.analogs =
                                    Append(@, <<name, Unpack(unpackStr, h)>>),
                                !.length = @ + shift], i + 1)

parseAnalog(p) == AnalogLoop([p EXCEPT !.analogs = <<>>], 0)

\* the loop of parseDigital from digital word i on: one (name, bit) pair
\* per word, the bit being bit i of totValBin
RECURSIVE DigitalLoop(_, _, _)
DigitalLoop(p, totValBin, i) ==
    IF i >= p.numOfDgtl THEN p
    ELSE LET name == PyStrip(p.stationFrame.channels[
                                 p.numOfPhsrs + p.numOfAnlg + i + 1])
         IN  DigitalLoop([p EXCEPT !.digitals = Append(@, <<name, totValBin[i + 1]>>),
                                   !.length = @ + 4], totValBin, i + 1)

\* totValBin is read once, before the loop, from the first digital word
parseDigital(p) ==
    LET h == PmuField(p, 4) IN
    IF Len(h) = 0 THEN Raise(p, "ValueError")
    ELSE IF p.numOfDgtl > Len(hexToBin(h, 16)) THEN Raise(p, "IndexError")
    ELSE DigitalLoop([p EXCEPT !.digitals = <<>>], hexToBin(h, 16), 0)

\* parse method n of PMU.__init__, and the methods from n on
PmuMethod(p, n) ==
    CASE n = 1 -> parseStat(p)
      [] n = 2 -> parsePhasors(p)
      [] n = 3 -> parseFreq(p)
      [] n = 4 -> parseDfreq(p)
      [] n = 5 -> parseAnalog(p)
      [] n = 6 -> parseDigital(p)

RECURSIVE PmuRun(_, _)
PmuRun(p, n) ==
    IF p.err # "" \/ n > 6 THEN p
    ELSE PmuRun(PmuMethod(p, n), n + 1)

\* PMU(pmuHexStr, theStationFrame)
PMU(pmuHexStr, theStationFrame) ==
    PmuRun(NewPMU(pmuHexStr, theStationFrame), 1)

(***************************************************************************)
(* DataFrame (pmuDataFrame.py)                                             *)
(***************************************************************************)
\* ---- the data frame a device sends (spec 4.3), as a hex string ----
\* status words: all flags clear; flags set with time quality 1 and
\* unlocked time 2; a trigger reason that no code stands for; time
\* quality 7 and unlocked time 1; sync lost
StatWords == <<0, 39527, 15, 16850, 8192>>

\* measurement words, among them 0x2328 = 9000, 0xFFFF, 0x8000 and the
\* two words 0x3F80, 0x0000 of the float 1.0
PayloadWords == <<9000, 0, 9000, 9000, 65535, 32768, 16256, 0>>

FracSecs == <<0, 500000, 999999>>

Seeds == 0 .. 3

PmuCounts == {1, 2}

\* hex digits missing at the end of the frame handed to DataFrame()
DataCuts == {0, 6}

\* the TIME_BASE words a device sends: 0x000F4240, a million counts per
\* second, and 0x010F4240, the same base under a flag bit
TimeBaseWords == {1000000, 17777216}

\* how a frame differs from what the configuration describes, as
\* <<cut, pad>>: not at all, cut short by cut hex digits, or carrying pad
\* more hex digits than the configured blocks have, counted in FRAMESIZE
DataDamage == {<<0, 0>>} \cup {<<c, 0>> : c \in DataCuts} \cup {<<0, 4>>}

\* the frames decoded, as <<stations, damage, TIME_BASE word>>: every
\* damage for every number of stations under the plain time base, and the
\* sound frame of one station under each time base
DataVariants ==
    {<<n, dmg, 1000000>> : n \in PmuCounts, dmg \in DataDamage}
        \cup {<<1, <<0, 0>>, tb>> : tb \in TimeBaseWords}

\* n measurement words from word k on
RECURSIVE WordsHex(_, _)
WordsHex(k, n) ==
    IF n = 0 THEN <<>>
    ELSE IntToHex(PayloadWords[(k % Len(PayloadWords)) + 1], 4)
             \o WordsHex(k + 1, n - 1)

\* bit b (0: least significant) of the FORMAT word says 32-bit floats
IsFloat(p, b) == (p.fmt \div (2 ^ b)) % 2 = 1

\* the 16-bit words of a PMU block after STAT: phasors, FREQ, DFREQ,
\* analogs, digitals
BlockWords(p) ==
    p.ph * (IF IsFloat(p, 1) THEN 4 ELSE 2)
        + 2 * (IF IsFloat(p, 3) THEN 2 ELSE 1)
        + p.an * (IF IsFloat(p, 2) THEN 2 ELSE 1)
        + p.dg

\* the PMU blocks of stations ps[i ..], block i (from 1) of frame seed
RECURSIVE BlocksHex(_, _, _)
BlocksHex(ps, i, seed) ==
    IF i > Len(ps) THEN <<>>
    ELSE IntToHex(StatWords[((seed + i - 1) % Len(StatWords)) + 1], 4)
             \o WordsHex(seed + i - 1, BlockWords(ps[i]))
             \o BlocksHex(ps, i + 1, seed)

DataHex(ps, seed, pad) ==
    LET body == BlocksHex(ps, 1, seed) \o IntToHex(0, pad) IN
    HeaderHex(1, (HeaderHexLen + Len(body) + 4) \div 2, 7, 1600000000,
              FracSecs[(seed % Len(FracSecs)) + 1])
        \o body \o IntToHex(43981, 4)

\* the station a device configures first
DataStations ==
    {[s |-> 1, fmt |-> f, ph |-> ph, an |-> an, dg |-> dg, fnom |-> 0,
      cfgcnt |-> 0] :
        f \in 0 .. 15, ph \in 0 .. MaxPhnmr, an \in 0 .. MaxAnnmr,
        dg \in 0 .. MaxDgnmr}

\* station i of the device: the later ones differ from the first in the
\* numeric types and in every count
StationParams(p, i) ==
    IF i = 1 THEN p
    ELSE [p EXCEPT !.s = i, !.fmt = (@ + 6) % 16, !.ph = MaxPhnmr - @,
                   !.an = MaxAnnmr - @, !.dg = MaxDgnmr - @]

\* the ConfigFrame object as decoding reads it: the Station objects
\* without the text they were parsed from
DecoderView(cfg) ==
    [cfg EXCEPT !.stations =
         [i \in 1 .. Len(@) |-> [@[i] EXCEPT !.stationFrame = <<>>]]]

\* ---- DataFrame(frameInHexStr, theConfigFrame) ----
DataStart ==
    /\ \E p \in DataStations, seed \in Seeds, v \in DataVariants :
          LET ps == [i \in 1 .. v[1] |-> StationParams(p, i)]
              dmg == v[2]
              h == DataHex(ps, seed, dmg[2])
          IN  /\ dcfg = Some(DecoderView(ConfigFrame(ConfigHex(ps, v[3]))))
              /\ dframe = PySlice(h, 0, Len(h) - dmg[1])
    /\ dpc = "PMUFrame"
    /\ dhdr = None
    /\ pmus = <<>>
    /\ pmu = None
    /\ nextPmuStartingPos = 0
    /\ dsoc = None

\* super().__init__ and super().finishParsing(), then the start of
\* parsePmus: nextPmuStartingPos = 28, self.pmus = [None] * num_pmu
ParseHeader ==
    /\ dpc = "PMUFrame"
    /\ IF PMUFrameOk(dframe)
       THEN /\ dhdr' = Some(PMUFrameHeader(dframe))
            /\ nextPmuStartingPos' = HeaderHexLen
            /\ dpc' = IF Val(dcfg).num_pmu = 0 THEN "updateSOC" ELSE "PMU"
       ELSE /\ dpc' = "raised"
            /\ UNCHANGED <<dhdr, nextPmuStartingPos>>
    /\ UNCHANGED <<dcfg, dframe, pmus, pmu, dsoc>>
    /\ UNCHANGED notData

\* PMU(self.frame[nextPmuStartingPos:], self.configFrame.stations[i])
\* up to its first parse method; i = len of the PMUs built so far
NewPmu ==
    /\ dpc = "PMU"
    /\ pmu' = Some(NewPMU(PyFrom(dframe, nextPmuStartingPos),
                          Val(dcfg).stations[Len(pmus) + 1]))
    /\ dpc' = "parseStat"
    /\ UNCHANGED <<dcfg, dframe, dhdr, pmus, nextPmuStartingPos, dsoc>>
    /\ UNCHANGED notData

\* one parse method of PMU.__init__ has run: an error ends the decoding
PmuStep(next, result) ==
    /\ pmu' = Some(result)
    /\ dpc' = IF result.err # "" THEN "raised" ELSE next
    /\ UNCHANGED <<dcfg, dframe, dhdr, pmus, nextPmuStartingPos, dsoc>>
    /\ UNCHANGED notData

ParseStat ==
    /\ dpc = "parseStat"
    /\ PmuStep("parsePhasors", parseStat(Val(pmu)))

ParsePhasors ==
    /\ dpc = "parsePhasors"
    /\ PmuStep("parseFreq", parsePhasors(Val(pmu)))

ParseFreq ==
    /\ dpc = "parseFreq"
    /\ PmuStep("parseDfreq", parseFreq(Val(pmu)))

ParseDfreq ==
    /\ dpc = "parseDfreq"
    /\ PmuStep("parseAnalog", parseDfreq(Val(pmu)))

ParseAnalog ==
    /\ dpc = "parseAnalog"
    /\ PmuStep("parseDigital", parseAnalog(Val(pmu)))

ParseDigital ==
    /\ dpc = "parseDigital"
    /\ PmuStep("store", parseDigital(Val(pmu)))

\* self.pmus[i] = the PMU built;
\* nextPmuStartingPos = nextPmuStartingPos + self.pmus[i].length
StorePmu ==
    /\ dpc = "store"
    /\ pmus' = Append(pmus, Val(pmu))
    /\ nextPmuStartingPos' = nextPmuStartingPos + Val(pmu).length
    /\ pmu' = None
    /\ dpc' = IF Len(pmus) + 1 < Val(dcfg).num_pmu THEN "PMU" ELSE "updateSOC"
    /\ UNCHANGED <<dcfg, dframe, dhdr, dsoc>>
    /\ UNCHANGED notData

\* the first n decimal digits of r / base after the point, for r < base
RECURSIVE DecimalDigits(_, _, _, _)
DecimalDigits(r, base, n, q) ==
    IF n = 0 THEN q
    ELSE DecimalDigits((r * 10) % base, base, n - 1,
                       q * 10 + ((r * 10) \div base))

\* int(fracsec / base * 10**6), computed in whole numbers
Micros(fracsec, base) ==
    IF 1000000 % base = 0 THEN fracsec * (1000000 \div base)
    ELSE DecimalDigits(fracsec, base, 6, 0)

\* a time of sec seconds and micro microseconds since the epoch, as a term
Time(sec, micro) ==
    <<9, sec + (micro \div 1000000), micro % 1000000>>

\* self.soc.ff = self.fracsec / self.configFrame.time_base.baseDecStr;
\* datetime() takes the calendar fields of SOC and int(ff * 10**6)
\* microseconds, below a million; utcSec is that datetime's epoch time
UpdateSOC ==
    /\ dpc = "updateSOC"
    /\ LET base == Val(dcfg).time_base.baseDecStr
           fracsec == Val(dhdr).fracsec
       IN  IF base = 0 \/ fracsec >= base
           THEN dpc' = "raised" /\ UNCHANGED dsoc
           ELSE /\ dsoc' = Some([ff |-> Div(Num(fracsec), base),
                                 soc |-> Val(dhdr).soc,
                                 utcSec |-> Time(Val(dhdr).soc,
                                                 Micros(fracsec, base))])
                /\ dpc' = "done"
    /\ UNCHANGED <<dcfg, dframe, dhdr, pmus, pmu, nextPmuStartingPos>>
    /\ UNCHANGED notData

(***************************************************************************)
(* TransferFrame (transferFrame.py)                                        *)
(*                                                                         *)
(* A hex string of the transfer frame is a sequence of chunks: <<0>> \o h  *)
(* is the hex digits h, and <<1>> \o t the 16 hex digits of the 8-byte     *)
(* double t, whose digits are not computed.                                *)
(***************************************************************************)
Lit(h) == <<0>> \o h

\* pmuLib.doubleToHexStr(t)
doubleToHexStr(t) == <<1>> \o t

\* len() of a hex string of chunks
ChunkLen(c) == IF c[1] = 0 THEN Len(c) - 1 ELSE 16

RECURSIVE HexLen(_)
HexLen(cs) == IF Len(cs) = 0 THEN 0 ELSE ChunkLen(cs[1]) + HexLen(Tail(cs))

\* pmuLib.intToHexStr(n): the hex digits of n, none to spare
RECURSIVE intToHexStr(_)
intToHexStr(n) ==
    IF n < 16 THEN <<n>> ELSE intToHexStr(n \div 16) \o <<n % 16>>

\* len(pack(fmt, ...)): mutated to 4 bytes whatever the format
PackLenWrong(fmt) == IF fmt = "H" THEN 2 ELSE 4

\* len(pack(fmt, ...)) for "d", "H" and "I"
PackLen(fmt) == IF fmt = "d" THEN 8 ELSE IF fmt = "H" THEN 2 ELSE 4

\* utcSec + fracsec / base
TimePlus(t, fracsec, base) ==
    IF fracsec = 0 THEN t
    ELSE IF 1000000 % base = 0 THEN Time(t[2], t[3] + Micros(fracsec, base))
    ELSE t \o <<fracsec, base>>

\* PhasorField.parseOptions
ParseOptions(units) ==
    IF units = "VOLTAGE" THEN ZFill(intToHexStr(0), 4) ELSE intToHexStr(2 ^ 15)

\* PhasorField(phasor, idNum, theUnits)
PhasorField(phasor, idNum, theUnits) ==
    LET hex == <<Lit(ZFill(intToHexStr(idNum), 4)),
                 doubleToHexStr(Val(phasor.mag)),
                 doubleToHexStr(Val(phasor.rad)),
                 Lit(ParseOptions(theUnits))>>
    IN  [ident |-> idNum, value |-> Val(phasor.mag),
         angle |-> Val(phasor.rad), units |-> theUnits,
         options |-> ParseOptions(theUnits), fullFrameHexStr |-> hex,
         length |-> HexLen(hex) \div 2]

\* the units of phasor ph of station p: mutated to those of its first
UnitsOfWrong(cfg, p, ph) == cfg.stations[p].phunits[1].voltORcurr

\* self.dataFrame.configFrame.stations[p].phunits[ph].voltORcurr
UnitsOf(cfg, p, ph) == cfg.stations[p].phunits[ph].voltORcurr

\* the loops of TransferFrame.parsePhasors from phasor ph (from 1) of
\* PMU p (from 1) on; t.phasors grows and len(t.phasors) is ident
RECURSIVE TfPhasorsLoop(_, _, _)
TfPhasorsLoop(t, p, ph) ==
    IF p > Val(dcfg).num_pmu THEN [t EXCEPT !.numOfPhasors = Len(t.phasors)]
    ELSE IF ph > pmus[p].numOfPhsrs THEN TfPhasorsLoop(t, p + 1, 1)
    ELSE LET pField == PhasorField(pmus[p].phasors[ph], Len(t.phasors),
                                   UnitsOf(Val(dcfg), p, ph))
         IN  TfPhasorsLoop(
                 [t EXCEPT !.length = @ + HexLen(pField.fullFrameHexStr) \div 2,
                           !.phasors = Append(@, pField)], p, ph + 1)

NewTransferFrame ==
    [header |-> <<10, 10, 15, 15>>, length |-> 0, timestamp |-> None,
     numOfPhasors |-> 0, phasors |-> <<>>, fullFrameHexStr |-> <<>>]

\* TransferFrame(inputDataFrame) up to the end of parseDataSample
ParseDataSample ==
    /\ dpc = "done"
    /\ tpc = "off"
    /\ LET t1 == [NewTransferFrame EXCEPT
                      !.length = Len(NewTransferFrame.header) \div 2,
                      !.timestamp =
                          Some(TimePlus(Val(dsoc).utcSec, Val(dhdr).fracsec,
                                        Val(dcfg).time_base.baseDecStr))]
           t2 == TfPhasorsLoop(t1, 1, 1)
       IN  tf' = Some([t2 EXCEPT !.length = @ + PackLen("d") + PackLen("H")
                                               + PackLen("I")])
    /\ tpc' = "createFullFrame"
    /\ UNCHANGED notTransfer

\* the hex strings of the phasor fields, one after the other
RECURSIVE FieldsHex(_)
FieldsHex(pfs) ==
    IF Len(pfs) = 0 THEN <<>>
    ELSE pfs[1].fullFrameHexStr \o FieldsHex(Tail(pfs))

\* createFullFrame: bytes.fromhex needs an even number of hex digits
CreateFullFrame ==
    /\ tpc = "createFullFrame"
    /\ LET t == Val(tf)
           hex == <<Lit(t.header),
                    Lit(ZFill(intToHexStr(t.length), 8)),
                    doubleToHexStr(Val(t.timestamp)),
                    Lit(ZFill(intToHexStr(t.numOfPhasors), 4))>>
                      \o FieldsHex(t.phasors)
       IN  /\ tf' = Some([t EXCEPT !.fullFrameHexStr = hex])
           /\ tpc' = IF HexLen(hex) % 2 = 0 THEN "done" ELSE "raised"
    /\ UNCHANGED notTransfer

NextData ==
    \/ ParseHeader
    \/ NewPmu
    \/ ParseStat
    \/ ParsePhasors
    \/ ParseFreq
    \/ ParseDfreq
    \/ ParseAnalog
    \/ ParseDigital
    \/ StorePmu
    \/ UpdateSOC
    \/ ParseDataSample
    \/ CreateFullFrame

InitData ==
    DataStart /\ FramerIdle /\ SessionIdle /\ StationIdle /\ TransferIdle

SpecData == InitData /\ [][NextData]_vars

(***************************************************************************)
(* Claims about the stream framer                                          *)
(***************************************************************************)
\* C1: on a TCP transport, whatever the declared frame length and however
\* the bytes are fragmented, getDataSampleBytes (total_bytes = -1) and
\* readConfigFrame2 return and consume exactly the declared number of bytes
C1_ExactlyDeclaredLength ==
    fpc = "done" => (retLen = wireLen /\ rdPos = wireLen)

\* C2: once the peer has closed with bytes still missing, readSample ends
\* with a ShortRead failure instead of looping on empty reads
C2_ClosedEndsInShortRead ==
    (peerClosed /\ fpc \in {"while", "recv"} /\ byteLen < bytesToRead)
        ~> (fpc = "ShortRead")

(***************************************************************************)
(* Claims about the device session                                         *)
(***************************************************************************)
\* C3: for an outgoing client of the Client or of the Proxy type whose
\* request went out, startDataStream ends by returning the ConfigFrame after
\* CONFIG2, the configuration read, DATAON, one data frame and the close of
\* the incoming client, in this order
C3_StartDataStreamCompletesInOrder ==
    (spc \in {"returned", "raised"} /\ response # "failed")
        => /\ spc = "returned"
           /\ steps = <<"CONFIG2", "readConfig", "DATAON", "readData", "close">>
           /\ configFrame # None

\* C4: a newly parsed ConfigFrame with a change count above the cached
\* configuration's discards the cached configuration, and no DataFrame is
\* decoded against a configuration older than the newest one parsed
C4_NewerConfigDiscardsCached ==
    [][/\ (/\ spc' = "have_config"
           /\ cached # None
           /\ Val(configFrame').cfgcnt > Val(cached).cfgcnt) => cached' = None
       /\ (/\ lastDecode' # lastDecode
           /\ configFrame # None)
              => Val(lastDecode').with >= Val(configFrame).cfgcnt]_vars

(***************************************************************************)
(* Claims about Station parsing                                            *)
(***************************************************************************)
\* the counts a station declares: the three 4-digit fields after the name,
\* the id code and the format word
DeclaredPhnmr == HexToInt(PySlice(st.stationFrame, 40, 44))

DeclaredAnnmr == HexToInt(PySlice(st.stationFrame, 44, 48))

DeclaredDgnmr == HexToInt(PySlice(st.stationFrame, 48, 52))

\* C10: a parsed Station has phnmr + annmr + 16*dgnmr channel names, phnmr
\* phasor conversion entries, annmr analog conversion entries and dgnmr
\* digital masks, whatever the declared counts
C10_TableLengthsAreDeclaredCounts ==
    stpc = "done" =>
        /\ Len(st.channels)
              = DeclaredPhnmr + DeclaredAnnmr + 16 * DeclaredDgnmr
        /\ Len(st.phunits) = DeclaredPhnmr
        /\ Len(st.anunits) = DeclaredAnnmr
        /\ Len(st.digunits) = DeclaredDgnmr

C10_Witness ==
    /\ stpc = "done"
    /\ DeclaredPhnmr >= 2
    /\ DeclaredAnnmr >= 1
    /\ DeclaredDgnmr >= 1
    /\ Len(st.channels) >= 19

(***************************************************************************)
(* Claims about DataFrame decoding                                         *)
(***************************************************************************)
\* the hex digits of a phasor, of FREQ (and DFREQ) and of an analog value
\* of a station (spec 4.3)
PhasorDigits(stn) == IF stn.phsrType = "INTEGER" THEN 8 ELSE 16

FreqDigits(stn) == IF stn.freqType = "INTEGER" THEN 4 ELSE 8

AnalogDigits(stn) == IF stn.anlgType = "INTEGER" THEN 4 ELSE 8

\* the hex digits of a station's PMU block
BlockDigits(stn) ==
    4 + stn.phnmr * PhasorDigits(stn) + 2 * FreqDigits(stn)
        + stn.annmr * AnalogDigits(stn) + 4 * stn.dgnmr

\* where block i (from 1) starts in the frame
RECURSIVE BlockStart(_)
BlockStart(i) ==
    IF i = 1 THEN HeaderHexLen
    ELSE BlockStart(i - 1) + BlockDigits(Val(dcfg).stations[i - 1])

\* where phasor k (from 1) and digital word w (from 0) of block i start
PhasorStart(i, k) ==
    BlockStart(i) + 4 + (k - 1) * PhasorDigits(Val(dcfg).stations[i])

DigitalStart(i, w) ==
    LET stn == Val(dcfg).stations[i] IN
    BlockStart(i) + 4 + stn.phnmr * PhasorDigits(stn) + 2 * FreqDigits(stn)
        + stn.annmr * AnalogDigits(stn) + 4 * w

\* the 16-bit word of the frame at hex position pos (from 0), unsigned
\* and as a two's complement number
WordAt(pos) ==
    4096 * dframe[pos + 1] + 256 * dframe[pos + 2] + 16 * dframe[pos + 3]
        + dframe[pos + 4]

SignedWordAt(pos) ==
    IF dframe[pos + 1] >= 8 THEN WordAt(pos) - 65536 ELSE WordAt(pos)

\* bit b (0: most significant) of the 16-bit word at pos
BitAt(pos, b) == (WordAt(pos) \div (2 ^ (15 - b))) % 2

\* bits [a, b) of the 16-bit word at pos, counted MSB first, as a number
BitsAt(pos, a, b) == (WordAt(pos) \div (2 ^ (16 - b))) % (2 ^ (b - a))

\* C5: every decoded PMU block holds 16 (name, bit) pairs per digital
\* word, 16 * dgnmr in all: pair 16*w + i is channel
\* phnmr + annmr + 16*w + i with bit i of word w of the block
C5_SixteenNamedBitsPerDigitalWord ==
    \A i \in 1 .. Len(pmus) :
        LET stn == Val(dcfg).stations[i] IN
        /\ Len(pmus[i].digitals) = 16 * stn.dgnmr
        /\ \A w \in 0 .. stn.dgnmr - 1, b \in 0 .. 15 :
              pmus[i].digitals[16 * w + b + 1] =
                  <<PyStrip(stn.channels[stn.phnmr + stn.annmr + 16 * w + b + 1]),
                    BitAt(DigitalStart(i, w), b)>>

\* C6: the Stat of every decoded PMU block holds all nine flags, each the
\* code of its own bit group of the status word, counted MSB first:
\* [0,2) [2] [3] [4] [5] [6] [7,10) [10,12) [12,16)
C6_StatHoldsAllNineFlags ==
    \A i \in 1 .. Len(pmus) :
        LET stat == Val(pmus[i].stat)
            pos == BlockStart(i)
        IN  /\ stat.dataError = Some(BitsAt(pos, 0, 2))
            /\ stat.pmuSync = Some(BitsAt(pos, 2, 3))
            /\ stat.sorting = Some(BitsAt(pos, 3, 4))
            /\ stat.pmuTrigger = Some(BitsAt(pos, 4, 5))
            /\ stat.configChange = Some(BitsAt(pos, 5, 6))
            /\ stat.dataModified = Some(BitsAt(pos, 6, 7))
            /\ stat.timeQuality = Some(BitsAt(pos, 7, 10))
            /\ stat.unlockedTime = Some(BitsAt(pos, 10, 12))
            /\ stat.triggerReason = Some(BitsAt(pos, 12, 16))

\* C7: the frame never holds more PMU blocks than the configuration has
\* stations and, once decoded, exactly as many; block i is decoded with
\* station i, has phnmr phasors and annmr analogs, phasor k carrying the
\* name of channel k and analog k the name (its text without surrounding
\* blanks) of channel phnmr + k
C7_OneBlockPerStationInOrder ==
    /\ Len(pmus) <= Val(dcfg).num_pmu
    /\ dpc = "done" => Len(pmus) = Val(dcfg).num_pmu
    /\ \A i \in 1 .. Len(pmus) :
          LET stn == Val(dcfg).stations[i] IN
          /\ pmus[i].stationFrame = stn
          /\ Len(pmus[i].phasors) = stn.phnmr
          /\ Len(pmus[i].analogs) = stn.annmr
          /\ \A k \in 1 .. stn.phnmr :
                pmus[i].phasors[k].name = stn.channels[k]
          /\ \A k \in 1 .. stn.annmr :
                pmus[i].analogs[k][1] = PyStrip(stn.channels[stn.phnmr + k])

\* a frame of two blocks is decoded, the first with phasors and analogs,
\* the second with a phasor or an analog
C7_Witness ==
    /\ dpc = "done"
    /\ Len(pmus) = 2
    /\ Len(pmus[1].phasors) >= 1
    /\ Len(pmus[1].analogs) >= 1
    /\ Len(pmus[2].phasors) + Len(pmus[2].analogs) >= 1

\* C8: a phasor of a RECT, INTEGER station takes 8 hex digits (4 bytes):
\* real and imag are the signed 16-bit values of its first and second
\* word, mag is hypot(real, imag) and deg is degrees(atan2(imag, real))
C8_RectIntegerPhasor ==
    \A i \in 1 .. Len(pmus) :
        LET stn == Val(dcfg).stations[i] IN
        (stn.phsrFmt = "RECT" /\ stn.phsrType = "INTEGER") =>
            \A k \in 1 .. Len(pmus[i].phasors) :
                LET ph == pmus[i].phasors[k]
                    re == Num(SignedWordAt(BlockStart(i) + 4 + 8 * (k - 1)))
                    im == Num(SignedWordAt(BlockStart(i) + 8 + 8 * (k - 1)))
                IN  /\ ph.length = 8
                    /\ ph.real = Some(re)
                    /\ ph.imag = Some(im)
                    /\ ph.mag = Some(Hypot(re, im))
                    /\ ph.deg = Some(Degrees(Atan2(im, re)))

\* the scenario of two phasors 0x2328,0x0000 and 0x2328,0x2328: the first
\* decodes to real 9000, imag 0, mag 9000, deg 0, the second to 9000, 9000
C8_Witness ==
    /\ dpc = "done"
    /\ Val(dcfg).stations[1].phsrFmt = "RECT"
    /\ Val(dcfg).stations[1].phsrType = "INTEGER"
    /\ Len(pmus[1].phasors) = 2
    /\ pmus[1].phasors[1].real = Some(Num(9000))
    /\ pmus[1].phasors[1].imag = Some(Num(0))
    /\ pmus[1].phasors[1].mag = Some(Num(9000))
    /\ pmus[1].phasors[1].deg = Some(Num(0))
    /\ pmus[1].phasors[2].real = Some(Num(9000))
    /\ pmus[1].phasors[2].imag = Some(Num(9000))

\* C9: the angle in radians of a phasor of a POLAR station is the signed
\* 16-bit second word divided by 10000 when the station is INTEGER, and
\* the float of the second 4 bytes, unscaled, when it is FLOAT
C9_PolarRadians ==
    \A i \in 1 .. Len(pmus) :
        LET stn == Val(dcfg).stations[i] IN
        stn.phsrFmt = "POLAR" =>
            \A k \in 1 .. Len(pmus[i].phasors) :
                LET ph == pmus[i].phasors[k]
                    pos == PhasorStart(i, k)
                IN  IF stn.phsrType = "INTEGER"
                    THEN ph.rad = Some(Div(Num(SignedWordAt(pos + 4)), 10000))
                    ELSE ph.rad = Some(F32(WordAt(pos + 8), WordAt(pos + 12)))

\* a frame is decoded whose first block has a POLAR INTEGER phasor with a
\* negative raw angle and whose second block has a POLAR FLOAT phasor
C9_Witness ==
    /\ dpc = "done"
    /\ Len(pmus) = 2
    /\ Val(dcfg).stations[1].phsrFmt = "POLAR"
    /\ Val(dcfg).stations[1].phsrType = "INTEGER"
    /\ Val(dcfg).stations[2].phsrType = "FLOAT"
    /\ \E k \in 1 .. Len(pmus[1].phasors) :
          /\ SignedWordAt(PhasorStart(1, k) + 4) < 0
          /\ pmus[1].phasors[k].rad # None
    /\ \E k \in 1 .. Len(pmus[2].phasors) :
          pmus[2].phasors[k].rad # Some(Num(0))

\* C11: a DataFrame object is returned only when the parse has advanced
\* over as many bytes (header, PMU blocks and CHK) as FRAMESIZE declares
C11_ConsumedIsDeclaredLength ==
    dpc = "done" => nextPmuStartingPos + 4 = 2 * Val(dhdr).framesize

\* the hex digits a station block takes by the counts it declares: STN,
\* IDCODE, FORMAT, the counts, the names, the tables, FNOM and CFGCNT
DeclaredExtent ==
    52 + 32 * (DeclaredPhnmr + DeclaredAnnmr + 16 * DeclaredDgnmr)
       + 8 * (DeclaredPhnmr + DeclaredAnnmr + DeclaredDgnmr) + 8

\* the bytes handed to Station() end before the station block does
StationTruncated ==
    Len(st.stationFrame) < 52 \/ Len(st.stationFrame) < DeclaredExtent

\* C12: the parse of a station block whose declared counts reach past
\* the end of the bytes supplied never succeeds
C12_TruncatedStationFails ==
    (stpc \in {"done", "raised"} /\ StationTruncated) => stpc = "raised"

(***************************************************************************)
(* Claims about the TransferFrame                                          *)
(***************************************************************************)
\* chunks 4*k + 1 .. 4*k + 4 after the four leading fields: record k
\* (from 0) of the emitted frame
RecordOf(hex, k) == SubSeq(hex, 5 + 4 * k, 8 + 4 * k)

\* C13: the length field of an emitted frame is the number of bytes of
\* the frame, 16 + 20 * N for N phasors of 20 bytes each, and the count
\* field is N
C13_LengthFieldIsFrameLength ==
    tpc = "done" =>
        LET hex == Val(tf).fullFrameHexStr
            N == Len(Val(tf).phasors)
        IN  /\ HexLen(hex) = 2 * (2 + 4 + 8 + 2 + 20 * N)
            /\ hex[1] = Lit(<<10, 10, 15, 15>>)
            /\ hex[2] = Lit(IntToHex(HexLen(hex) \div 2, 8))
            /\ hex[4] = Lit(IntToHex(N, 4))
            /\ \A k \in 0 .. N - 1 : HexLen(RecordOf(hex, k)) = 40

\* a frame of a voltage and a current phasor has been emitted
C13_Witness ==
    /\ tpc = "done"
    /\ \E j, k \in 1 .. Len(Val(tf).phasors) :
          /\ Val(tf).phasors[j].units = "VOLTAGE"
          /\ Val(tf).phasors[k].units = "CURRENT"

\* the (station, phasor) pairs of the configuration from station p on, in
\* station order then phasor order
RECURSIVE PairsFrom(_)
PairsFrom(p) ==
    IF p > Val(dcfg).num_pmu THEN <<>>
    ELSE [ph \in 1 .. Val(dcfg).stations[p].phnmr |-> <<p, ph>>]
             \o PairsFrom(p + 1)

\* C14: the emitted frame has one record per (station, phasor) pair, in
\* station order then phasor order; record k (from 0) carries id k, the
\* magnitude and the angle in radians of its pair, and a unit flag that
\* is 0 exactly when the pair's PHUNIT kind is VOLTAGE
C14_OneRecordPerStationPhasorPair ==
    tpc = "done" =>
        LET hex == Val(tf).fullFrameHexStr
            pairs == PairsFrom(1)
        IN  /\ Len(Val(tf).phasors) = Len(pairs)
            /\ Len(hex) = 4 + 4 * Len(pairs)
            /\ \A k \in 0 .. Len(pairs) - 1 :
                  LET rec == RecordOf(hex, k)
                      phasor == pmus[pairs[k + 1][1]].phasors[pairs[k + 1][2]]
                      kind == Val(dcfg).stations[pairs[k + 1][1]]
                                  .phunits[pairs[k + 1][2]].voltORcurr
                  IN  /\ rec[1] = Lit(IntToHex(k, 4))
                      /\ rec[2] = <<1>> \o Val(phasor.mag)
                      /\ rec[3] = <<1>> \o Val(phasor.rad)
                      /\ rec[4][1] = 0
                      /\ (HexToInt(Tail(rec[4])) = 0) <=> (kind = "VOLTAGE")
                      /\ kind \in {"VOLTAGE", "CURRENT"}

\* a frame has been emitted for two stations that both have phasors
C14_Witness ==
    /\ tpc = "done"
    /\ Val(dcfg).num_pmu = 2
    /\ Val(dcfg).stations[1].phnmr >= 1
    /\ Val(dcfg).stations[2].phnmr >= 1
    /\ Val(tf).phasors[Len(Val(tf).phasors)].ident = Len(PairsFrom(1)) - 1

\* C15: the timestamp of the TransferFrame is the header's SOC seconds
\* plus fracsec / time_base of the DataFrame it is built from
C15_TimestampIsSocPlusFraction ==
    tpc # "off" =>
        Val(tf).timestamp =
            Some(Time(Val(dhdr).soc,
                      Micros(Val(dhdr).fracsec,
                             Val(dcfg).time_base.baseDecStr)))

\* C16: once parsed, the session's ConfigFrame is never changed in place:
\* in every step it stays the same object or is given up for a new one
C16_ConfigFrameNeverMutatedInPlace ==
    [][(configFrame # None /\ configFrame' # None) =>
           configFrame' = configFrame]_vars

\* the bytes of a station's PMU block, from its counts and format flags
BlockBytes(stn) ==
    2 + stn.phnmr * (IF stn.phsrType = "INTEGER" THEN 4 ELSE 8)
      + 2 * (IF stn.freqType = "INTEGER" THEN 2 ELSE 4)
      + stn.annmr * (IF stn.anlgType = "INTEGER" THEN 2 ELSE 4)
      + 2 * stn.dgnmr

\* the byte of the frame where block i (from 1) starts
RECURSIVE BlockStartByte(_)
BlockStartByte(i) ==
    IF i = 1 THEN 14
    ELSE BlockStartByte(i - 1) + BlockBytes(Val(dcfg).stations[i - 1])

\* the byte of a block where the field that is parsed next starts, the
\* fields lying in the order status, phasors, frequency, ROCOF, analogs,
\* digitals
FieldStartByte(stn, pc) ==
    LET phasorBytes == IF stn.phsrType = "INTEGER" THEN 4 ELSE 8
        freqBytes == IF stn.freqType = "INTEGER" THEN 2 ELSE 4
        analogBytes == IF stn.anlgType = "INTEGER" THEN 2 ELSE 4
    IN  CASE pc = "parseStat" -> 0
          [] pc = "parsePhasors" -> 2
          [] pc = "parseFreq" -> 2 + stn.phnmr * phasorBytes
          [] pc = "parseDfreq" -> 2 + stn.phnmr * phasorBytes + freqBytes
          [] pc = "parseAnalog" -> 2 + stn.phnmr * phasorBytes + 2 * freqBytes
          [] pc = "parseDigital" ->
                 2 + stn.phnmr * phasorBytes + 2 * freqBytes
                   + stn.annmr * analogBytes
          [] pc = "store" -> BlockBytes(stn)

\* C17: the first PMU block starts at byte 14 and every block where the
\* one before it ends; a block has the size its station's counts and
\* format flags give, and its fields are read one after the other in the
\* order status, phasors, frequency, ROCOF, analogs, digitals
C17_BlocksAreContiguous ==
    /\ dpc \in {"PMU", "updateSOC", "done"} =>
          /\ nextPmuStartingPos = 2 * BlockStartByte(Len(pmus) + 1)
          /\ \A i \in 1 .. Len(pmus) :
                /\ pmus[i].pmuHex = PyFrom(dframe, 2 * BlockStartByte(i))
                /\ pmus[i].length = 2 * BlockBytes(Val(dcfg).stations[i])
                /\ Val(dcfg).stations[i].freqType = "INTEGER" =>
                      /\ pmus[i].freq = Some(Num(SignedWordAt(
                             2 * (BlockStartByte(i)
                                  + FieldStartByte(Val(dcfg).stations[i],
                                                   "parseFreq")))))
    /\ dpc \in {"parseStat", "parsePhasors", "parseFreq", "parseDfreq",
                "parseAnalog", "parseDigital", "store"} =>
          LET i == Len(pmus) + 1 IN
          /\ nextPmuStartingPos = 2 * BlockStartByte(i)
          /\ Val(pmu).pmuHex = PyFrom(dframe, 2 * BlockStartByte(i))
          /\ Val(pmu).length =
                 2 * FieldStartByte(Val(dcfg).stations[i], dpc)

\* two blocks have been decoded, the first with phasors, analogs and
\* digitals and a numeric type of 4 bytes, the second not empty
C17_Witness ==
    /\ dpc = "done"
    /\ Len(pmus) = 2
    /\ Val(dcfg).stations[1].phnmr >= 1
    /\ Val(dcfg).stations[1].annmr >= 1
    /\ Val(dcfg).stations[1].dgnmr >= 1
    /\ Val(dcfg).stations[1].freqType = "FLOAT"
    /\ pmus[2].length > 12
    /\ nextPmuStartingPos = 28 + pmus[1].length + pmus[2].length

\* C18: the real and imaginary parts of a POLAR phasor are mag * cos(rad)
\* and mag * sin(rad), rad being the angle in radians the phasor exposes
\* (a zero magnitude gives zero parts whatever the angle)
C18_PolarPartsUseRadians ==
    \A i \in 1 .. Len(pmus) :
        Val(dcfg).stations[i].phsrFmt = "POLAR" =>
            \A k \in 1 .. Len(pmus[i].phasors) :
                LET ph == pmus[i].phasors[k] IN
                \/ ph.mag = Some(Num(0))
                \/ /\ ph.real = Some(Mul(Val(ph.mag), Cos(Val(ph.rad))))
                   /\ ph.imag = Some(Mul(Val(ph.mag), Sin(Val(ph.rad))))

\* the FORMAT field of the station block: 4 hex digits after the 16
\* bytes of STN and the 2 of IDCODE
FormatField == PySlice(st.stationFrame, 36, 40)

\* bit b (0: least significant) of the FORMAT word
FormatBit(b) == (HexToInt(FormatField) \div (2 ^ b)) % 2

\* C19: the four format flags of a Station are the low 4 bits of its
\* 16-bit FORMAT field: bit 0 the phasor representation, bit 1 the phasor
\* type, bit 2 the analog type, bit 3 the frequency type; the upper 12
\* bits play no part
C19_FormatFlagsAreLowFourBits ==
    (st.length >= 40 /\ Len(FormatField) = 4) =>
        /\ st.phsrFmt = (IF FormatBit(0) = 0 THEN "RECT" ELSE "POLAR")
        /\ st.phsrType = (IF FormatBit(1) = 0 THEN "INTEGER" ELSE "FLOAT")
        /\ st.anlgType = (IF FormatBit(2) = 0 THEN "INTEGER" ELSE "FLOAT")
        /\ st.freqType = (IF FormatBit(3) = 0 THEN "INTEGER" ELSE "FLOAT")

\* a station with FORMAT 0xFFF5, all upper 12 bits set, has been parsed
C19_Witness ==
    /\ stpc = "done"
    /\ HexToInt(FormatField) = 65525
    /\ st.phsrFmt = "POLAR"
    /\ st.freqType = "INTEGER"

\* the FNOM field of the station block: the 4 hex digits between the
\* digital mask table and CFGCNT
FnomField == PySlice(st.stationFrame, DeclaredExtent - 8, DeclaredExtent - 4)

\* C20: the nominal frequency of a parsed Station is the low bit of its
\* own FNOM field, 0 for 60 Hz and 1 for 50 Hz, whatever CFGCNT holds
C20_FnomFromItsOwnField ==
    (stpc = "done" /\ Len(FnomField) = 4) =>
        st.fnom = (IF HexToInt(FnomField) % 2 = 0 THEN "HZ60" ELSE "HZ50")

\* where ROCOF starts in the frame: after STAT, the phasors and FREQ of
\* block i
DfreqStart(i) ==
    LET stn == Val(dcfg).stations[i] IN
    BlockStart(i) + 4 + stn.phnmr * PhasorDigits(stn) + FreqDigits(stn)

\* C22: ROCOF has the width of the frequency; a 2-byte integer r decodes
\* to r / 100 and a 4-byte float is exposed as the value stored
C22_RocofScaledOnlyWhenInteger ==
    \A i \in 1 .. Len(pmus) :
        IF Val(dcfg).stations[i].freqType = "INTEGER"
        THEN pmus[i].dfreq =
                 Some(Div(Num(SignedWordAt(DfreqStart(i))), 100))
        ELSE pmus[i].dfreq =
                 Some(F32(WordAt(DfreqStart(i)), WordAt(DfreqStart(i) + 4)))

\* C23: every entry of the analog conversion table of a parsed Station
\* exposes the kind of its first byte and the scale of its other 3 bytes
C23_AnunitExposesKindAndScale ==
    stpc = "done" =>
        \A i \in 1 .. Len(st.anunits) :
            LET a == st.anunits[i] IN
            Len(a.anunitHex) = 8 =>
                /\ a.anlgMsrmnt = AnlgMsrmnt(HexToInt(PySlice(a.anunitHex, 0, 2)))
                /\ a.userDefinedScale = Some(HexToInt(PyFrom(a.anunitHex, 2)))

\* the 24-bit base of the TIME_BASE field the configuration was parsed
\* from: its low 6 hex digits
Base24 == HexToInt(PyFrom(Val(dcfg).time_base.timeBaseHex, 2))

\* C21: the time base is the low 24 bits of the TIME_BASE field, and it is
\* what fracsec is divided by; the 8 flag bits above play no part
C21_TimeBaseIsLow24Bits ==
    dpc = "done" =>
        /\ Val(dcfg).time_base.baseDecStr = Base24
        /\ Val(dsoc).ff = Div(Num(Val(dhdr).fracsec), Base24)

=============================================================================
